---- MODULE Spec2Model ----
(***************************************************************************)
(* Verification model of the discussion-graph application:                 *)
(*   - the orthogonal pathfinder (src/lib/pathfinder.ts),                  *)
(*   - the graph view state of the discussions store                       *)
(*     (src/stores/discussionsStore.ts) with its persistence calls,        *)
(*   - the canvas interaction controller (useCanvasEvents.ts,              *)
(*     GraphCanvas.tsx, GraphToolbar.tsx).                                 *)
(*                                                                         *)
(* Coordinates are integers.  Node widths and heights are drawn from even  *)
(* numbers, so that width / 2 and height / 2 of the source are exact.      *)
(* The zoom scale is kept in tenths (scale 1.0 is 10), offsets are exact   *)
(* fractions.                                                              *)
(***************************************************************************)
EXTENDS Integers, Sequences, FiniteSets, TLC

VARIABLES
    \* ---- pathfinder call (specification SpecPath) ----
    startNode,      \* findOrthogonalPath argument startNode
    endNode,        \* findOrthogonalPath argument endNode
    allNodes,       \* findOrthogonalPath argument allNodes (a set of nodes)
    pathResult,     \* the returned Point[]
    pathPc,         \* "input" before the call, "done" after it
    \* ---- cleanupPath applied to arbitrary point lists (SpecCleanup) ----
    rawPath,        \* the argument of cleanupPath
    cleanedOnce,    \* cleanupPath(rawPath)
    cleanedTwice,   \* cleanupPath(cleanupPath(rawPath))
    cleanPc,        \* "input", "once", "twice"
    \* ---- discussions store: currentDiscussion and graphState ----
    currentDiscussion,  \* id of the open discussion or NoDiscussion
    nodes,              \* graphState.nodes (array)
    connections,        \* graphState.connections (array)
    selectedNodeId,     \* graphState.selectedNodeId or Undefined
    isEditingNode,      \* graphState.isEditingNode or Undefined
    scale,              \* graphState.scale in tenths
    offset,             \* graphState.offset: [x, y], each an exact fraction
    \* ---- canvas controller (useCanvasEvents / GraphCanvas local state) ----
    isConnecting,
    connectionStart,    \* node id or Undefined (null)
    tempConnection,     \* graph-space point or NoPoint (null)
    gestureCalls,       \* addConnection calls made since Connecting was entered
    draggedNodeId,      \* Undefined (null) or the id given to setDraggedNodeId
    dragElement,        \* what the pointer is dragging (Konva's drag element)
    isResizing,         \* Undefined or the node whose KonvaNode has isResizing
    \* ---- persistence collaborator and requests in flight ----
    dbNodes,            \* rows of graph_nodes
    dbConnections,      \* rows of node_connections
    calls,              \* store operations awaiting their response
    issued,             \* number of requests issued so far
    wheelEvents,        \* number of wheel events handled so far
    keyEvents           \* number of key presses handled so far

pathVars  == <<startNode, endNode, allNodes, pathResult, pathPc>>
cleanVars == <<rawPath, cleanedOnce, cleanedTwice, cleanPc>>
graphVars == <<nodes, connections, selectedNodeId, isEditingNode>>
viewVars  == <<scale, offset>>
linkVars  == <<isConnecting, connectionStart, tempConnection, gestureCalls>>
gestureVars == <<draggedNodeId, dragElement, isResizing>>
ctrlVars  == <<linkVars, gestureVars>>
dbVars    == <<dbNodes, dbConnections>>
storeVars == <<currentDiscussion, graphVars, viewVars, ctrlVars, dbVars, calls, issued>>
\* counters of the input events whose number is bounded
eventVars == <<wheelEvents, keyEvents>>

vars == <<pathVars, cleanVars, storeVars, eventVars>>

(***************************************************************************)
(* Pathfinder: types, configuration and geometry helpers                   *)
(***************************************************************************)
STUB_LENGTH == 30
PADDING == 5
COLLAPSED_HEIGHT == 40

Point(px, py) == [x |-> px, y |-> py]

Min(a, b) == IF a < b THEN a ELSE b
Max(a, b) == IF a > b THEN a ELSE b
Abs(a) == IF a < 0 THEN -a ELSE a
Sign(a) == IF a > 0 THEN 1 ELSE IF a < 0 THEN -1 ELSE 0

\* startHeight / endHeight / the height of allNodeRects
EffectiveHeight(n) == IF n.isCollapsed THEN COLLAPSED_HEIGHT ELSE n.height

NodeRect(n) == [x |-> n.x, y |-> n.y, width |-> n.width, height |-> EffectiveHeight(n)]

lineIntersectsRect(p1, p2, rect) ==
    LET minX == Min(p1.x, p2.x)
        maxX == Max(p1.x, p2.x)
        minY == Min(p1.y, p2.y)
        maxY == Max(p1.y, p2.y)
    IN  /\ rect.x - PADDING < maxX
        /\ rect.x + rect.width + PADDING > minX
        /\ rect.y - PADDING < maxY
        /\ rect.y + rect.height + PADDING > minY

\* mutant: the loop stops one segment early (i < path.length - 3)
doesPathIntersectObstacles_ShortLoop(path, obstacles) ==
    \E i \in 2..(Len(path) - 3) :
        \E obs \in obstacles : lineIntersectsRect(path[i], path[i + 1], obs)

\* for (i = 1; i < path.length - 2; i++) over 0-based path[i], path[i+1]
doesPathIntersectObstacles(path, obstacles) ==
    \E i \in 2..(Len(path) - 2) :
        \E obs \in obstacles : lineIntersectsRect(path[i], path[i + 1], obs)

RECURSIVE PathLengthFrom(_, _)
PathLengthFrom(path, i) ==
    IF i >= Len(path) THEN 0
    ELSE Abs(path[i].x - path[i + 1].x) + Abs(path[i].y - path[i + 1].y)
         + PathLengthFrom(path, i + 1)

getPathLength(path) == PathLengthFrom(path, 1)

isColinear(p1, p2, p3) ==
    (p2.x - p1.x) * (p3.y - p1.y) = (p3.x - p1.x) * (p2.y - p1.y)

\* The loop of cleanupPath: i runs over the interior points, cleanedPath is
\* the list built so far.
RECURSIVE CleanupLoop(_, _, _)
CleanupLoop(path, i, cleanedPath) ==
    IF i > Len(path) - 1 THEN cleanedPath
    ELSE LET p1 == cleanedPath[Len(cleanedPath)]
             p2 == path[i]
             p3 == path[i + 1]
         IN  CleanupLoop(path, i + 1,
                 IF ~isColinear(p1, p2, p3) THEN Append(cleanedPath, p2)
                 ELSE cleanedPath)

cleanupPath(path) ==
    IF Len(path) < 3 THEN path
    ELSE Append(CleanupLoop(path, 2, <<path[1]>>), path[Len(path)])

(***************************************************************************)
(* Pathfinder: main algorithm                                              *)
(***************************************************************************)
NodeCenter(n) == Point(n.x + n.width \div 2, n.y + EffectiveHeight(n) \div 2)

\* mutant: the ports use the stored height of a collapsed node
NodePorts_StoredHeight(n) ==
    LET c == NodeCenter(n)
    IN  << Point(c.x, n.y),
           Point(c.x, n.y + n.height),
           Point(n.x, c.y),
           Point(n.x + n.width, c.y) >>

\* startPorts / endPorts: top, bottom, left, right
NodePorts(n) ==
    LET c == NodeCenter(n)
    IN  << Point(c.x, n.y),
           Point(c.x, n.y + EffectiveHeight(n)),
           Point(n.x, c.y),
           Point(n.x + n.width, c.y) >>

\* mutant: the stubs point into the node
StubOf_Inward(port, center) ==
    Point(port.x - Sign(port.x - center.x) * STUB_LENGTH,
          port.y - Sign(port.y - center.y) * STUB_LENGTH)

\* startStub / endStub
StubOf(port, center) ==
    Point(port.x + Sign(port.x - center.x) * STUB_LENGTH,
          port.y + Sign(port.y - center.y) * STUB_LENGTH)

\* candidates of one port pair, in the order of the array literal
PairCandidates(sp, ep, startCenter, endCenter) ==
    LET startStub == StubOf(sp, startCenter)
        endStub   == StubOf(ep, endCenter)
    IN  << <<sp, startStub, Point(endStub.x, startStub.y), endStub, ep>>,
           <<sp, startStub, Point(startStub.x, endStub.y), endStub, ep>> >>

\* all 32 candidates in enumeration order: k = 0..31,
\* source port k \div 8, target port (k \div 2) % 4, bend k % 2
AllCandidates(s, e) ==
    [k \in 1..32 |->
        PairCandidates(NodePorts(s)[((k - 1) \div 8) + 1],
                       NodePorts(e)[(((k - 1) \div 2) % 4) + 1],
                       NodeCenter(s), NodeCenter(e))[((k - 1) % 2) + 1]]

AllNodeRects(nodeList) == {NodeRect(n) : n \in nodeList}

\* mutant: among candidates of equal length the last one found wins
RECURSIVE SearchFrom_LastWins(_, _, _, _)
SearchFrom_LastWins(cands, rects, k, best) ==
    IF k > Len(cands) THEN best
    ELSE LET path == cands[k]
             length == getPathLength(path)
         IN  SearchFrom_LastWins(cands, rects, k + 1,
                 IF /\ ~doesPathIntersectObstacles(path, rects)
                    /\ (~best.found \/ length <= best.length)
                 THEN [path |-> path, length |-> length, found |-> TRUE]
                 ELSE best)

\* The nested loops: best is [path, length, found]; found = FALSE stands
\* for shortestLength = Infinity.
RECURSIVE SearchFrom(_, _, _, _)
SearchFrom(cands, rects, k, best) ==
    IF k > Len(cands) THEN best
    ELSE LET path == cands[k]
             length == getPathLength(path)
         IN  SearchFrom(cands, rects, k + 1,
                 IF /\ ~doesPathIntersectObstacles(path, rects)
                    /\ (~best.found \/ length < best.length)
                 THEN [path |-> path, length |-> length, found |-> TRUE]
                 ELSE best)

\* mutant: the fallback joins the two centres directly
fallbackPath_NoCorner(s, e) ==
    << NodeCenter(s), NodeCenter(e) >>

fallbackPath(s, e) ==
    << NodeCenter(s), Point(NodeCenter(s).x, NodeCenter(e).y), NodeCenter(e) >>

\* mutant: no fallback, the empty bestPath is returned
findOrthogonalPath_NoFallback(s, e, nodeList) ==
    LET best == SearchFrom(AllCandidates(s, e), AllNodeRects(nodeList), 1,
                           [path |-> <<>>, length |-> 0, found |-> FALSE])
    IN  cleanupPath(best.path)

findOrthogonalPath(s, e, nodeList) ==
    LET best == SearchFrom(AllCandidates(s, e), AllNodeRects(nodeList), 1,
                           [path |-> <<>>, length |-> 0, found |-> FALSE])
    IN  IF ~best.found THEN cleanupPath(fallbackPath(s, e))
        ELSE cleanupPath(best.path)

(***************************************************************************)
(* Discussions store: state after construction                             *)
(***************************************************************************)
\* undefined / null of an optional node id
Undefined == 0
\* currentDiscussion: null
NoDiscussion == "none"
\* tempConnection: null
NoPoint == <<>>

\* discussions of the database
Discussions == {"d1", "d2"}

\* scales are kept in tenths:
\* CANVAS_SETTINGS.minScale = 0.1, maxScale = 3, scaleStep = 0.1
CANVAS_MIN_SCALE == 1
CANVAS_MAX_SCALE == 30
CANVAS_SCALE_STEP == 1
\* initialGraphState.scale = 1
INITIAL_SCALE == 10

\* exact fractions n/d with d > 0, kept reduced
RECURSIVE Gcd(_, _)
Gcd(a, b) == IF b = 0 THEN a ELSE Gcd(b, a % b)

Frac(n, d) ==
    LET g == Gcd(Abs(n), d)
    IN  IF n = 0 THEN [n |-> 0, d |-> 1] ELSE [n |-> n \div g, d |-> d \div g]

Whole(k) == [n |-> k, d |-> 1]

InitialOffset == [x |-> Whole(0), y |-> Whole(0)]

\* DEFAULT_NODE_SIZE
DEFAULT_NODE_WIDTH == 200
DEFAULT_NODE_HEIGHT == 100

\* Konva's drag element: nothing, the stage, a node's group, or the resize
\* handle of a node
NoDrag == [kind |-> "none", id |-> Undefined]
StageDrag == [kind |-> "stage", id |-> Undefined]
NodeDrag(id) == [kind |-> "node", id |-> id]
HandleDrag(id) == [kind |-> "handle", id |-> id]

\* requests issued to the persistence collaborator in a run
MaxRequests == 3
\* wheel events handled in a run
MaxWheelEvents == 1
\* key presses handled in a run
MaxKeyEvents == 1

\* the store as created (initialGraphState, currentDiscussion: null) and the
\* canvas controller's useState defaults
ClientInit ==
    /\ currentDiscussion = NoDiscussion
    /\ nodes = <<>>
    /\ connections = <<>>
    /\ selectedNodeId = Undefined
    /\ isEditingNode = Undefined
    /\ scale = INITIAL_SCALE
    /\ offset = InitialOffset
    /\ isConnecting = FALSE
    /\ connectionStart = Undefined
    /\ tempConnection = NoPoint
    /\ gestureCalls = 0
    /\ draggedNodeId = Undefined
    /\ dragElement = NoDrag
    /\ isResizing = Undefined
    /\ calls = {}
    /\ issued = 0
    /\ wheelEvents = 0
    /\ keyEvents = 0

StoreInit ==
    /\ ClientInit
    /\ dbNodes = {}
    /\ dbConnections = {}

(***************************************************************************)
(* Persistence collaborator: requests in flight and the database           *)
(***************************************************************************)
\* A store operation that has issued its request and awaits the response.
\*   op      the store operation
\*   origin  the handler that called it (decides the code run after await)
\*   tag     the number of the request; an inserted row gets it as its id
\*   a, b    node / connection ids of the arguments
\*   phase   "sent"; "ok" / "err" once the collaborator has answered
\*   live    FALSE once the canvas whose handler awaits it has been unmounted
\*   patch   the node fields sent by addNode / updateNode
\*   row     the row returned by insert / update ... select().single()
\* the node fields of a request: keys names the fields that are present
NodePatch(keys, x, y, width, height, isCollapsed) ==
    [keys |-> keys, x |-> x, y |-> y, width |-> width, height |-> height,
     isCollapsed |-> isCollapsed]

NoPatch == NodePatch({}, Whole(0), Whole(0), 0, 0, FALSE)

\* mapGraphNodeRowToGraphNode: the rows are kept in the frontend's field names
NodeRow(id, disc, x, y, width, height) ==
    [id |-> id, discussionId |-> disc, x |-> x, y |-> y,
     width |-> width, height |-> height, isCollapsed |-> FALSE]

NoRow == NodeRow(Undefined, NoDiscussion, Whole(0), Whole(0), 0, 0)

NewCall(op, origin, tag, disc, a, b) ==
    [op |-> op, origin |-> origin, tag |-> tag, disc |-> disc, a |-> a, b |-> b,
     phase |-> "sent", snapNodes |-> <<>>, snapConnections |-> <<>>, live |-> TRUE,
     patch |-> NoPatch, row |-> NoRow]

NewNodeCall(op, origin, tag, disc, a, patch) ==
    [NewCall(op, origin, tag, disc, a, Undefined) EXCEPT !.patch = patch]

\* update(dbUpdates): the fields present in the patch replace the row's
ApplyPatch(row, patch) ==
    [row EXCEPT !.x = IF "x" \in patch.keys THEN patch.x ELSE @,
                !.y = IF "y" \in patch.keys THEN patch.y ELSE @,
                !.width = IF "width" \in patch.keys THEN patch.width ELSE @,
                !.height = IF "height" \in patch.keys THEN patch.height ELSE @,
                !.isCollapsed =
                    IF "isCollapsed" \in patch.keys THEN patch.isCollapsed ELSE @]

CanIssue == issued < MaxRequests

\* mapConnectionRowToNodeConnection
ConnectionRow(id, from, to, disc) ==
    [id |-> id, fromNodeId |-> from, toNodeId |-> to,
     relationshipType |-> "supports", discussionId |-> disc]

\* the rows of a select, ordered by id
RECURSIVE RowsById(_)
RowsById(rows) ==
    IF rows = {} THEN <<>>
    ELSE LET first == CHOOSE r \in rows : \A q \in rows : r.id <= q.id
         IN  <<first>> \o RowsById(rows \ {first})

DbNodeIds == {n.id : n \in dbNodes}

\* The collaborator executes a request.  node_connections.from_node_id and
\* to_node_id are foreign keys into graph_nodes: an insert naming a missing
\* node is refused, deleting a node removes the connections naming it (a
\* database that refuses such a delete instead answers as in ServerError).
ServerExecute(c) ==
    /\ c \in calls /\ c.phase = "sent"
    /\ \/ /\ c.op = "addNode"
          /\ LET row == NodeRow(c.tag, c.disc, c.patch.x, c.patch.y,
                                c.patch.width, c.patch.height)
             IN  /\ dbNodes' = dbNodes \cup {row}
                 /\ calls' = (calls \ {c}) \cup {[c EXCEPT !.phase = "ok", !.row = row]}
          /\ UNCHANGED dbConnections
       \/ /\ c.op = "updateNode"
          /\ UNCHANGED dbConnections
          /\ IF c.a \in DbNodeIds
             THEN LET old == CHOOSE n \in dbNodes : n.id = c.a
                      row == ApplyPatch(old, c.patch)
                  IN  /\ dbNodes' = (dbNodes \ {old}) \cup {row}
                      /\ calls' = (calls \ {c}) \cup
                             {[c EXCEPT !.phase = "ok", !.row = row]}
             ELSE \* single() finds no row: { error }
                  /\ UNCHANGED dbNodes
                  /\ calls' = (calls \ {c}) \cup {[c EXCEPT !.phase = "err"]}
       \/ /\ c.op = "deleteNode"
          /\ dbNodes' = {n \in dbNodes : n.id # c.a}
          /\ dbConnections' =
                 {k \in dbConnections : k.fromNodeId # c.a /\ k.toNodeId # c.a}
          /\ calls' = (calls \ {c}) \cup {[c EXCEPT !.phase = "ok"]}
       \/ /\ c.op = "addConnection"
          /\ {c.a, c.b} \subseteq DbNodeIds
          /\ dbConnections' = dbConnections \cup {ConnectionRow(c.tag, c.a, c.b, c.disc)}
          /\ UNCHANGED dbNodes
          /\ calls' = (calls \ {c}) \cup {[c EXCEPT !.phase = "ok"]}
       \/ /\ c.op = "deleteConnection"
          /\ dbConnections' = {k \in dbConnections : k.id # c.a}
          /\ UNCHANGED dbNodes
          /\ calls' = (calls \ {c}) \cup {[c EXCEPT !.phase = "ok"]}
       \/ /\ c.op = "loadDiscussion"
          /\ UNCHANGED dbVars
          /\ calls' = (calls \ {c}) \cup
                 {[c EXCEPT !.phase = "ok",
                     !.snapNodes = RowsById({n \in dbNodes : n.discussionId = c.disc}),
                     !.snapConnections =
                         RowsById({k \in dbConnections : k.discussionId = c.disc})]}
    /\ UNCHANGED <<currentDiscussion, graphVars, viewVars, ctrlVars, issued>>

\* The request fails (network, authorization, constraint): { error }.
ServerError(c) ==
    /\ c \in calls /\ c.phase = "sent"
    /\ calls' = (calls \ {c}) \cup {[c EXCEPT !.phase = "err"]}
    /\ UNCHANGED <<currentDiscussion, graphVars, viewVars, ctrlVars, dbVars, issued>>

(***************************************************************************)
(* Discussions store: operations.  Each operation is split at its await:   *)
(* the part before it issues the request, the part after it runs when the  *)
(* response is delivered.                                                  *)
(***************************************************************************)
NodeIds == {nodes[i].id : i \in 1..Len(nodes)}

\* array.filter
Filter(seq, Keep(_)) == SelectSeq(seq, Keep)

\* setSelectedNode, setEditingNode
setSelectedNode(id) == selectedNodeId' = id
setEditingNode(id) == isEditingNode' = id

\* loadDiscussion up to its await: graphState and currentDiscussion are
\* reset, the three selects are issued.  DiscussionView renders its loading
\* screen while currentDiscussion is null, which unmounts the canvas: the
\* controller's state is discarded and the handlers still awaiting a
\* response belong to no mounted component any more.
LoadDiscussion(d) ==
    /\ CanIssue
    /\ currentDiscussion' = NoDiscussion
    /\ nodes' = <<>> /\ connections' = <<>>
    /\ selectedNodeId' = Undefined /\ isEditingNode' = Undefined
    /\ scale' = INITIAL_SCALE /\ offset' = InitialOffset
    /\ isConnecting' = FALSE /\ connectionStart' = Undefined /\ tempConnection' = NoPoint
    /\ gestureCalls' = 0
    /\ draggedNodeId' = Undefined /\ dragElement' = NoDrag /\ isResizing' = Undefined
    /\ issued' = issued + 1
    /\ calls' = {[c EXCEPT !.live = (c.origin \notin {"nodeClick", "nodeDragEnd"})] :
                     c \in calls}
                \cup {NewCall("loadDiscussion", "view", issued + 1, d, Undefined, Undefined)}
    /\ UNCHANGED dbVars

\* loadDiscussion after its await
LoadDiscussionDone(c) ==
    /\ c \in calls /\ c.op = "loadDiscussion" /\ c.phase # "sent"
    /\ calls' = calls \ {c}
    /\ IF c.phase = "err"
       THEN UNCHANGED <<currentDiscussion, graphVars, viewVars>>
       ELSE /\ currentDiscussion' = c.disc
            /\ nodes' = c.snapNodes
            /\ connections' = c.snapConnections
            /\ selectedNodeId' = Undefined /\ isEditingNode' = Undefined
            /\ scale' = INITIAL_SCALE /\ offset' = InitialOffset
    /\ UNCHANGED <<ctrlVars, dbVars, issued>>

\* addNode after its await, followed by the rest of the calling handler:
\* handleCanvasDoubleClick selects the new node and opens it for editing,
\* DiscussionView.handleAddNode opens it for editing
AddNodeDone(c) ==
    /\ c \in calls /\ c.op = "addNode" /\ c.phase # "sent"
    /\ calls' = calls \ {c}
    /\ IF c.phase = "err"
       THEN UNCHANGED graphVars
       ELSE /\ nodes' = Append(nodes, c.row)
            /\ UNCHANGED connections
            /\ IF c.origin = "canvasDoubleClick"
               THEN setSelectedNode(c.tag) /\ setEditingNode(c.tag)
               ELSE setEditingNode(c.tag) /\ UNCHANGED selectedNodeId
    /\ UNCHANGED <<currentDiscussion, viewVars, ctrlVars, dbVars, issued>>

\* deleteNode's filter of the connections, and the same filter testing the
\* source end only
RemoveNodeConnections_SourceOnly(conns, id) ==
    Filter(conns, LAMBDA k : k.fromNodeId # id)

RemoveNodeConnections(conns, id) ==
    Filter(conns, LAMBDA k : k.fromNodeId # id /\ k.toNodeId # id)

\* a node leaves graphState.nodes: its group is destroyed (a drag of it or
\* of its handle ends without a drag-end event) and its component's state is
\* discarded; the canvas's own state is kept
UnmountNode(id) ==
    /\ dragElement' = IF dragElement.id = id THEN NoDrag ELSE dragElement
    /\ isResizing' = IF isResizing = id THEN Undefined ELSE isResizing
    /\ UNCHANGED <<linkVars, draggedNodeId>>

\* deleteNode after its await
DeleteNodeDone(c) ==
    /\ c \in calls /\ c.op = "deleteNode" /\ c.phase # "sent"
    /\ calls' = calls \ {c}
    /\ IF c.phase = "err"
       THEN UNCHANGED graphVars
       ELSE /\ nodes' = Filter(nodes, LAMBDA n : n.id # c.a)
            /\ connections' = RemoveNodeConnections(connections, c.a)
            /\ selectedNodeId' = IF selectedNodeId = c.a THEN Undefined ELSE selectedNodeId
            /\ UNCHANGED isEditingNode
    /\ IF c.phase = "err" THEN UNCHANGED ctrlVars ELSE UnmountNode(c.a)
    /\ UNCHANGED <<currentDiscussion, viewVars, dbVars, issued>>

\* mutant: the preview line is not cleared when the gesture completes
AddConnectionDone_KeepsTemp(c) ==
    /\ c \in calls /\ c.op = "addConnection" /\ c.phase # "sent"
    /\ calls' = calls \ {c}
    /\ IF c.phase = "err"
       THEN UNCHANGED <<connections, ctrlVars>>
       ELSE /\ connections' = Append(connections, ConnectionRow(c.tag, c.a, c.b, c.disc))
            /\ IF c.origin = "nodeClick" /\ c.live
               THEN /\ isConnecting' = FALSE
                    /\ connectionStart' = Undefined
                    /\ gestureCalls' = 0
                    /\ UNCHANGED <<tempConnection, gestureVars>>
               ELSE UNCHANGED ctrlVars
    /\ UNCHANGED <<currentDiscussion, nodes, selectedNodeId, isEditingNode, viewVars,
                   dbVars, issued>>

\* addConnection after its await, followed by the rest of handleNodeClick
\* (the three setters act on the canvas only while it is still mounted)
AddConnectionDone(c) ==
    /\ c \in calls /\ c.op = "addConnection" /\ c.phase # "sent"
    /\ calls' = calls \ {c}
    /\ IF c.phase = "err"
       THEN UNCHANGED <<connections, ctrlVars>>
       ELSE /\ connections' = Append(connections, ConnectionRow(c.tag, c.a, c.b, c.disc))
            /\ IF c.origin = "nodeClick" /\ c.live
               THEN /\ isConnecting' = FALSE
                    /\ connectionStart' = Undefined
                    /\ tempConnection' = NoPoint
                    /\ gestureCalls' = 0
                    /\ UNCHANGED gestureVars
               ELSE UNCHANGED ctrlVars
    /\ UNCHANGED <<currentDiscussion, nodes, selectedNodeId, isEditingNode, viewVars,
                   dbVars, issued>>

\* deleteConnection: no component calls it; it is an operation of the store
DeleteConnection(id) ==
    /\ CanIssue
    /\ currentDiscussion # NoDiscussion
    /\ id \in {connections[i].id : i \in 1..Len(connections)}
    /\ issued' = issued + 1
    /\ calls' = calls \cup {NewCall("deleteConnection", "store", issued + 1, currentDiscussion,
                                    id, Undefined)}
    /\ UNCHANGED <<currentDiscussion, graphVars, viewVars, ctrlVars, dbVars>>

DeleteConnectionDone(c) ==
    /\ c \in calls /\ c.op = "deleteConnection" /\ c.phase # "sent"
    /\ calls' = calls \ {c}
    /\ IF c.phase = "err"
       THEN UNCHANGED connections
       ELSE connections' = Filter(connections, LAMBDA k : k.id # c.a)
    /\ UNCHANGED <<currentDiscussion, nodes, selectedNodeId, isEditingNode, viewVars,
                   ctrlVars, dbVars, issued>>

(***************************************************************************)
(* Components: canvas controller, toolbar, discussion view, node editor    *)
(***************************************************************************)
\* DiscussionView renders the toolbar and the canvas only once a discussion
\* is loaded
CanvasMounted == currentDiscussion # NoDiscussion

\* NodeEditor renders its full-screen modal when isEditingNode names a node
\* of the graph (it returns null otherwise); the modal covers the canvas and
\* the toolbar
EditorOpen == isEditingNode # Undefined /\ isEditingNode \in NodeIds

\* the pointer is not in the middle of a drag
PointerFree == dragElement = NoDrag

Interactive == CanvasMounted /\ ~EditorOpen /\ PointerFree

\* pointer positions on the stage
Pointers == {[x |-> 100, y |-> 50]}

\* (pointer - offset) / scale, the scale being kept in tenths
GraphPoint(p, o, s) ==
    [x |-> Frac((p.x * o.x.d - o.x.n) * 10, o.x.d * s),
     y |-> Frac((p.y * o.y.d - o.y.n) * 10, o.y.d * s)]

ToGraph(p) == GraphPoint(p, offset, scale)

\* mutant: the connection gesture is not aborted
handleCanvasClick_NoAbort ==
    /\ Interactive
    /\ setSelectedNode(Undefined)
    /\ setEditingNode(Undefined)
    /\ UNCHANGED <<currentDiscussion, nodes, connections, viewVars, ctrlVars, dbVars,
                   calls, issued>>

\* a click whose target is the stage itself
handleCanvasClick ==
    /\ Interactive
    /\ setSelectedNode(Undefined)
    /\ setEditingNode(Undefined)
    /\ IF isConnecting
       THEN /\ isConnecting' = FALSE
            /\ connectionStart' = Undefined
            /\ tempConnection' = NoPoint
            /\ gestureCalls' = 0
            /\ UNCHANGED gestureVars
       ELSE UNCHANGED ctrlVars
    /\ UNCHANGED <<currentDiscussion, nodes, connections, viewVars, dbVars, calls, issued>>

\* mutant: the point becomes the node's top-left corner
NewNodePatch_TopLeft(g) ==
    NodePatch({"x", "y", "width", "height"}, g.x, g.y,
              DEFAULT_NODE_WIDTH, DEFAULT_NODE_HEIGHT, FALSE)

\* x - DEFAULT_NODE_SIZE.width / 2, y - DEFAULT_NODE_SIZE.height / 2 for a
\* graph-space point (x, y); width and height are even
NewNodePatch(g) ==
    NodePatch({"x", "y", "width", "height"},
              Frac(g.x.n - (DEFAULT_NODE_WIDTH \div 2) * g.x.d, g.x.d),
              Frac(g.y.n - (DEFAULT_NODE_HEIGHT \div 2) * g.y.d, g.y.d),
              DEFAULT_NODE_WIDTH, DEFAULT_NODE_HEIGHT, FALSE)

\* a double click with the pointer at p; up to the await of addNode
handleCanvasDoubleClick(p) ==
    /\ Interactive
    /\ CanIssue
    /\ issued' = issued + 1
    /\ calls' = calls \cup {NewNodeCall("addNode", "canvasDoubleClick", issued + 1,
                                        currentDiscussion, Undefined,
                                        NewNodePatch(ToGraph(p)))}
    /\ UNCHANGED <<currentDiscussion, graphVars, viewVars, ctrlVars, dbVars>>

\* the measured size of the canvas container
CanvasSize == [width |-> 800, height |-> 600]

\* DiscussionView.handleAddNode (the toolbar's add buttons), up to the await:
\* the node is centred on the middle of the canvas
handleAddNode ==
    /\ Interactive
    /\ CanIssue
    /\ issued' = issued + 1
    /\ calls' = calls \cup
           {NewNodeCall("addNode", "toolbar", issued + 1, currentDiscussion, Undefined,
                        NewNodePatch(ToGraph([x |-> CanvasSize.width \div 2,
                                              y |-> CanvasSize.height \div 2])))}
    /\ UNCHANGED <<currentDiscussion, graphVars, viewVars, ctrlVars, dbVars>>

\* mutant: the shift key is not looked at
handleNodeClick_ShiftIgnored(nodeId, shiftKey) ==
    /\ Interactive
    /\ nodeId \in NodeIds
    /\ IF isConnecting /\ connectionStart # Undefined /\ connectionStart # nodeId
       THEN /\ CanIssue
            /\ issued' = issued + 1
            /\ calls' = calls \cup {NewCall("addConnection", "nodeClick",
                                            issued + 1, currentDiscussion,
                                            connectionStart, nodeId)}
            /\ gestureCalls' = gestureCalls + 1
            /\ UNCHANGED <<graphVars, isConnecting, connectionStart, tempConnection,
                           gestureVars>>
       ELSE /\ setSelectedNode(nodeId)
            /\ UNCHANGED <<ctrlVars, nodes, connections, isEditingNode, calls, issued>>
    /\ UNCHANGED <<currentDiscussion, viewVars, dbVars>>

\* mutant: the clicked node is not compared with connectionStart
handleNodeClick_NoSelfTest(nodeId, shiftKey) ==
    /\ Interactive
    /\ nodeId \in NodeIds
    /\ IF isConnecting /\ connectionStart # Undefined
       THEN /\ CanIssue
            /\ issued' = issued + 1
            /\ calls' = calls \cup {NewCall("addConnection", "nodeClick",
                                            issued + 1, currentDiscussion,
                                            connectionStart, nodeId)}
            /\ gestureCalls' = gestureCalls + 1
            /\ UNCHANGED <<graphVars, isConnecting, connectionStart, tempConnection,
                           gestureVars>>
       ELSE /\ setSelectedNode(nodeId)
            /\ IF shiftKey
               THEN /\ isConnecting' = TRUE
                    /\ connectionStart' = nodeId
                    /\ UNCHANGED <<tempConnection, gestureCalls, gestureVars>>
               ELSE UNCHANGED ctrlVars
            /\ UNCHANGED <<nodes, connections, isEditingNode, calls, issued>>
    /\ UNCHANGED <<currentDiscussion, viewVars, dbVars>>

\* a click on a rendered node; up to the await of addConnection in the
\* connecting branch
handleNodeClick(nodeId, shiftKey) ==
    /\ Interactive
    /\ nodeId \in NodeIds
    /\ IF isConnecting /\ connectionStart # Undefined /\ connectionStart # nodeId
       THEN /\ CanIssue
            /\ issued' = issued + 1
            /\ calls' = calls \cup {NewCall("addConnection", "nodeClick",
                                            issued + 1, currentDiscussion,
                                            connectionStart, nodeId)}
            /\ gestureCalls' = gestureCalls + 1
            /\ UNCHANGED <<graphVars, isConnecting, connectionStart, tempConnection,
                           gestureVars>>
       ELSE /\ setSelectedNode(nodeId)
            /\ IF shiftKey
               THEN /\ isConnecting' = TRUE
                    /\ connectionStart' = nodeId
                    /\ UNCHANGED <<tempConnection, gestureCalls, gestureVars>>
               ELSE UNCHANGED ctrlVars
            /\ UNCHANGED <<nodes, connections, isEditingNode, calls, issued>>
    /\ UNCHANGED <<currentDiscussion, viewVars, dbVars>>

handleNodeDoubleClick(nodeId) ==
    /\ Interactive
    /\ nodeId \in NodeIds
    /\ setEditingNode(nodeId)
    /\ UNCHANGED <<currentDiscussion, nodes, connections, selectedNodeId, viewVars,
                   ctrlVars, dbVars, calls, issued>>

handleMouseMove(p) ==
    /\ Interactive
    /\ isConnecting /\ connectionStart # Undefined
    /\ tempConnection' = ToGraph(p)
    /\ UNCHANGED <<currentDiscussion, graphVars, viewVars, isConnecting, connectionStart,
                   gestureCalls, gestureVars, dbVars, calls, issued>>

\* GraphToolbar: the Edit and Delete buttons are rendered while the selected
\* node is found in nodes.  handleDeleteSelected up to the await of deleteNode
handleDeleteSelected ==
    /\ Interactive
    /\ selectedNodeId # Undefined /\ selectedNodeId \in NodeIds
    /\ CanIssue
    /\ issued' = issued + 1
    /\ calls' = calls \cup {NewCall("deleteNode", "toolbar", issued + 1, currentDiscussion,
                                    selectedNodeId, Undefined)}
    /\ UNCHANGED <<currentDiscussion, graphVars, viewVars, ctrlVars, dbVars>>

handleEditSelected ==
    /\ Interactive
    /\ selectedNodeId # Undefined /\ selectedNodeId \in NodeIds
    /\ setEditingNode(selectedNodeId)
    /\ UNCHANGED <<currentDiscussion, nodes, connections, selectedNodeId, viewVars,
                   ctrlVars, dbVars, calls, issued>>

\* The Escape key.  Its only listener is handleKeyDown on the textarea of
\* the NodeEditor (which calls onClose); the canvas, the toolbar and the
\* document have no key listener, so elsewhere the key press changes nothing.
EscapeKey(inTextarea) ==
    /\ CanvasMounted
    /\ keyEvents < MaxKeyEvents
    /\ keyEvents' = keyEvents + 1
    /\ IF EditorOpen /\ inTextarea
       THEN setEditingNode(Undefined)
       ELSE UNCHANGED isEditingNode
    /\ UNCHANGED <<currentDiscussion, nodes, connections, selectedNodeId, viewVars,
                   ctrlVars, dbVars, calls, issued>>

\* NodeEditor: close button, Cancel
EditorClose ==
    /\ CanvasMounted /\ EditorOpen
    /\ setEditingNode(Undefined)
    /\ UNCHANGED <<currentDiscussion, nodes, connections, selectedNodeId, viewVars,
                   ctrlVars, dbVars, calls, issued>>

(***************************************************************************)
(* View: wheel zoom, toolbar zoom and reset, panning the stage             *)
(***************************************************************************)
\* updateGraphView
updateGraphView(newScale, newOffset) ==
    /\ scale' = newScale
    /\ offset' = newOffset

\* handleWheel: newScale, and the same step without the clamp
WheelScale_Unclamped(oldScale, direction) == oldScale + direction * CANVAS_SCALE_STEP

WheelScale(oldScale, direction) ==
    Max(CANVAS_MIN_SCALE,
        Min(CANVAS_MAX_SCALE, oldScale + direction * CANVAS_SCALE_STEP))

\* handleWheel: newOffset = pointer - mousePointTo * newScale, and the same
\* with the pointer left out
WheelOffset_NoPointer(pointer, mousePointTo, newScale) ==
    [x |-> Frac(0 - mousePointTo.x.n * newScale, mousePointTo.x.d * 10),
     y |-> Frac(0 - mousePointTo.y.n * newScale, mousePointTo.y.d * 10)]

WheelOffset(pointer, mousePointTo, newScale) ==
    [x |-> Frac(pointer.x * mousePointTo.x.d * 10 - mousePointTo.x.n * newScale,
                mousePointTo.x.d * 10),
     y |-> Frac(pointer.y * mousePointTo.y.d * 10 - mousePointTo.y.n * newScale,
                mousePointTo.y.d * 10)]

\* e.evt.deltaY > 0 ? -1 : 1
WheelDirection(deltaY) == IF deltaY > 0 THEN -1 ELSE 1

handleWheel(pointer, deltaY) ==
    /\ Interactive
    /\ wheelEvents < MaxWheelEvents
    /\ wheelEvents' = wheelEvents + 1
    /\ LET oldScale == scale
           mousePointTo == GraphPoint(pointer, offset, oldScale)
           newScale == WheelScale(oldScale, WheelDirection(deltaY))
       IN  updateGraphView(newScale, WheelOffset(pointer, mousePointTo, newScale))
    /\ UNCHANGED <<currentDiscussion, graphVars, ctrlVars, dbVars, calls, issued>>

\* GraphToolbar
handleZoomIn ==
    /\ Interactive
    /\ updateGraphView(Min(CANVAS_MAX_SCALE, scale + CANVAS_SCALE_STEP), offset)
    /\ UNCHANGED <<currentDiscussion, graphVars, ctrlVars, dbVars, calls, issued, wheelEvents>>

handleZoomOut ==
    /\ Interactive
    /\ updateGraphView(Max(CANVAS_MIN_SCALE, scale - CANVAS_SCALE_STEP), offset)
    /\ UNCHANGED <<currentDiscussion, graphVars, ctrlVars, dbVars, calls, issued, wheelEvents>>

handleReset ==
    /\ Interactive
    /\ updateGraphView(INITIAL_SCALE, InitialOffset)
    /\ UNCHANGED <<currentDiscussion, graphVars, ctrlVars, dbVars, calls, issued, wheelEvents>>

\* the Stage's draggable prop
StageDraggable == ~isConnecting /\ draggedNodeId = Undefined

\* the Stage's onDragEnd handler, which receives the stage's own drag-end
\* and every drag-end that bubbles up from a node: unless draggedNodeId is
\* set, the offset becomes the position of the event's target
onStageDragEnd(position) ==
    IF draggedNodeId = Undefined
    THEN updateGraphView(scale, position)
    ELSE UNCHANGED viewVars

\* a pan of the stage from its drag-start to its drag-end, for the
\* specifications in which nothing happens in between
StageDragEnd(position) ==
    /\ Interactive
    /\ StageDraggable
    /\ onStageDragEnd([x |-> Whole(position.x), y |-> Whole(position.y)])
    /\ UNCHANGED <<currentDiscussion, graphVars, ctrlVars, dbVars, calls, issued, wheelEvents>>

\* the pointer goes down on the empty stage and moves: Konva starts to drag
\* the stage (the Stage has no onDragStart handler)
StageDragStart ==
    /\ Interactive
    /\ StageDraggable
    /\ dragElement' = StageDrag
    /\ UNCHANGED <<currentDiscussion, graphVars, viewVars, linkVars, draggedNodeId,
                   isResizing, dbVars, calls, issued, wheelEvents>>

\* the pointer is released after a drag of the stage
StagePanEnd(position) ==
    /\ CanvasMounted
    /\ dragElement = StageDrag
    /\ dragElement' = NoDrag
    /\ onStageDragEnd([x |-> Whole(position.x), y |-> Whole(position.y)])
    /\ UNCHANGED <<currentDiscussion, graphVars, linkVars, draggedNodeId, isResizing,
                   dbVars, calls, issued, wheelEvents>>

(***************************************************************************)
(* Dragging and resizing a node                                            *)
(***************************************************************************)
\* Math.round of a fraction: floor(x + 1/2)
Round(f) == (2 * f.n + f.d) \div (2 * f.d)

\* KonvaNode
MIN_WIDTH == 150
MIN_HEIGHT == 80
HANDLE_SIZE == 12

\* the node's Group is draggable unless its handle is being dragged
handleNodeDragStart(nodeId) ==
    /\ Interactive
    /\ nodeId \in NodeIds
    /\ isResizing # nodeId
    /\ draggedNodeId' = nodeId
    /\ dragElement' = NodeDrag(nodeId)
    /\ UNCHANGED <<currentDiscussion, graphVars, viewVars, linkVars, isResizing,
                   dbVars, calls, issued>>

\* the pointer is released with the node's group at position: the handler
\* runs up to the await of updateNode (cancelBubble is set only after it),
\* so the event bubbles to the Stage's onDragEnd with the group as target
handleNodeDragEnd(nodeId, position) ==
    /\ CanvasMounted
    /\ dragElement = NodeDrag(nodeId)
    /\ CanIssue
    /\ issued' = issued + 1
    /\ calls' = calls \cup
           {NewNodeCall("updateNode", "nodeDragEnd", issued + 1, currentDiscussion, nodeId,
                        NodePatch({"x", "y"}, Whole(Round(position.x)),
                                  Whole(Round(position.y)), 0, 0, FALSE))}
    /\ dragElement' = NoDrag
    /\ onStageDragEnd(position)
    /\ UNCHANGED <<currentDiscussion, graphVars, linkVars, draggedNodeId, isResizing, dbVars>>

\* nodes.map(n => n.id === id ? row : n)
ReplaceNode(ns, id, row) ==
    [i \in DOMAIN ns |-> IF ns[i].id = id THEN row ELSE ns[i]]

\* updateNode after its await (it throws on an error), followed by the rest
\* of handleNodeDragEnd: setDraggedNodeId(null), which acts on the canvas
\* only while it is still mounted
UpdateNodeDone(c) ==
    /\ c \in calls /\ c.op = "updateNode" /\ c.phase # "sent"
    /\ calls' = calls \ {c}
    /\ IF c.phase = "err"
       THEN UNCHANGED <<nodes, draggedNodeId>>
       ELSE /\ nodes' = ReplaceNode(nodes, c.a, c.row)
            /\ draggedNodeId' = IF c.origin = "nodeDragEnd" /\ c.live
                                THEN Undefined ELSE draggedNodeId
    /\ UNCHANGED <<currentDiscussion, connections, selectedNodeId, isEditingNode, viewVars,
                   linkVars, dragElement, isResizing, dbVars, issued>>

\* the local copy of a node
NodeOf(id) == nodes[CHOOSE i \in DOMAIN nodes : nodes[i].id = id]

\* KonvaNode: a click on the title bar selects the node and asks for the
\* negation of the flag of the rendered node; updateNode up to its await
\* (the call is not awaited by the handler)
handleToggleCollapse(nodeId) ==
    /\ Interactive
    /\ nodeId \in NodeIds
    /\ CanIssue
    /\ setSelectedNode(nodeId)
    /\ issued' = issued + 1
    /\ calls' = calls \cup
           {NewNodeCall("updateNode", "collapse", issued + 1, currentDiscussion, nodeId,
                        NodePatch({"isCollapsed"}, Whole(0), Whole(0), 0, 0,
                                  ~NodeOf(nodeId).isCollapsed))}
    /\ UNCHANGED <<currentDiscussion, nodes, connections, isEditingNode, viewVars,
                   ctrlVars, dbVars>>

\* the resize handle is rendered on the selected node unless it is collapsed
handleResizeDragStart(nodeId) ==
    /\ Interactive
    /\ selectedNodeId = nodeId
    /\ \E i \in DOMAIN nodes : nodes[i].id = nodeId /\ ~nodes[i].isCollapsed
    /\ isResizing' = nodeId
    /\ dragElement' = HandleDrag(nodeId)
    /\ UNCHANGED <<currentDiscussion, graphVars, viewVars, linkVars, draggedNodeId,
                   dbVars, calls, issued>>

\* mutant: the size is not clamped to MIN_WIDTH x MIN_HEIGHT
handleResizeDragEnd_Unclamped(nodeId, handle) ==
    /\ CanvasMounted
    /\ dragElement = HandleDrag(nodeId)
    /\ CanIssue
    /\ issued' = issued + 1
    /\ calls' = calls \cup
           {NewNodeCall("updateNode", "resize", issued + 1, currentDiscussion, nodeId,
                        NodePatch({"width", "height", "isCollapsed"}, Whole(0), Whole(0),
                                  handle.x + HANDLE_SIZE, handle.y + HANDLE_SIZE, FALSE))}
    /\ isResizing' = Undefined
    /\ dragElement' = NoDrag
    /\ UNCHANGED <<currentDiscussion, graphVars, viewVars, linkVars, draggedNodeId, dbVars>>

\* handleResizeDragMove's size for the handle at position, then
\* handleResizeDragEnd: setIsResizing(false) and, from its timer, updateNode
\* up to its await.  The events of the handle do not bubble.
handleResizeDragEnd(nodeId, handle) ==
    /\ CanvasMounted
    /\ dragElement = HandleDrag(nodeId)
    /\ CanIssue
    /\ issued' = issued + 1
    /\ calls' = calls \cup
           {NewNodeCall("updateNode", "resize", issued + 1, currentDiscussion, nodeId,
                        NodePatch({"width", "height", "isCollapsed"}, Whole(0), Whole(0),
                                  Max(MIN_WIDTH, handle.x + HANDLE_SIZE),
                                  Max(MIN_HEIGHT, handle.y + HANDLE_SIZE), FALSE))}
    /\ isResizing' = Undefined
    /\ dragElement' = NoDrag
    /\ UNCHANGED <<currentDiscussion, graphVars, viewVars, linkVars, draggedNodeId, dbVars>>

(***************************************************************************)
(* Specification SpecPath: one call of findOrthogonalPath on a bounded     *)
(* family of node configurations                                           *)
(***************************************************************************)
GNode(id, px, py, w, h, c) ==
    [id |-> id, x |-> px, y |-> py, width |-> w, height |-> h, isCollapsed |-> c]

NoNode == GNode("none", 0, 0, 0, 0, FALSE)

\* positions of the target node's top-left corner
TargetXs == {0, 260, 500}
TargetYs == {0, 300}

\* third-party nodes that may be present: one between the source and a
\* target to its right, one enclosing the source and all of its stubs, one
\* below the source, one next to the lower-right target
ObstaclePool ==
    { GNode("O1", 300, 20, 100, 60, FALSE),
      GNode("O2", -100, -100, 400, 300, FALSE),
      GNode("O3", 0, 150, 200, 100, FALSE),
      GNode("O4", 380, 260, 100, 180, FALSE) }

PathIdle ==
    /\ startNode = NoNode
    /\ endNode = NoNode
    /\ allNodes = {}
    /\ pathResult = <<>>
    /\ pathPc = "idle"

CleanIdle ==
    /\ rawPath = <<>>
    /\ cleanedOnce = <<>>
    /\ cleanedTwice = <<>>
    /\ cleanPc = "idle"

InitPath ==
    /\ \E sc \in BOOLEAN : startNode = GNode("A", 0, 0, 200, 100, sc)
    /\ \E tx \in TargetXs, ty \in TargetYs, tc \in BOOLEAN :
           endNode = GNode("B", tx, ty, 200, 100, tc)
    /\ \E obs \in SUBSET ObstaclePool : allNodes = {startNode, endNode} \cup obs
    /\ pathResult = <<>>
    /\ pathPc = "input"
    /\ CleanIdle
    /\ StoreInit

\* KonvaConnection: pathPoints = findOrthogonalPath(fromNode, toNode, nodes)
FindPath ==
    /\ pathPc = "input"
    /\ pathResult' = findOrthogonalPath(startNode, endNode, allNodes)
    /\ pathPc' = "done"
    /\ UNCHANGED <<startNode, endNode, allNodes, cleanVars, storeVars, eventVars>>

NextPath == FindPath

SpecPath == InitPath /\ [][NextPath]_vars

(***************************************************************************)
(* Specification SpecCleanup: cleanupPath applied once and twice to every  *)
(* point list up to MaxPathLen over a small grid                           *)
(***************************************************************************)
MaxPathLen == 4

GridPoints == {Point(gx, gy) : gx \in 0..2, gy \in 0..1}

PointLists == UNION {[1..n -> GridPoints] : n \in 0..MaxPathLen}

InitCleanup ==
    /\ rawPath \in PointLists
    /\ cleanedOnce = <<>>
    /\ cleanedTwice = <<>>
    /\ cleanPc = "input"
    /\ PathIdle
    /\ StoreInit

CleanOnce ==
    /\ cleanPc = "input"
    /\ cleanedOnce' = cleanupPath(rawPath)
    /\ cleanPc' = "once"
    /\ UNCHANGED <<rawPath, cleanedTwice, pathVars, storeVars, eventVars>>

CleanTwice ==
    /\ cleanPc = "once"
    /\ cleanedTwice' = cleanupPath(cleanedOnce)
    /\ cleanPc' = "twice"
    /\ UNCHANGED <<rawPath, cleanedOnce, pathVars, storeVars, eventVars>>

NextCleanup == CleanOnce \/ CleanTwice

SpecCleanup == InitCleanup /\ [][NextCleanup]_vars

(***************************************************************************)
(* Specification Spec: the store, the components that call it and the      *)
(* persistence collaborator                                                *)
(***************************************************************************)
\* what the database holds when the application starts: a discussion d1 of
\* three nodes chained by two connections, and an empty discussion d2
StoredNodes ==
    {NodeRow(11, "d1", Whole(0), Whole(0), DEFAULT_NODE_WIDTH, DEFAULT_NODE_HEIGHT),
     NodeRow(12, "d1", Whole(300), Whole(0), DEFAULT_NODE_WIDTH, DEFAULT_NODE_HEIGHT),
     NodeRow(13, "d1", Whole(0), Whole(200), DEFAULT_NODE_WIDTH, DEFAULT_NODE_HEIGHT)}

StoredConnections == {ConnectionRow(11, 11, 12, "d1"), ConnectionRow(12, 12, 13, "d1")}

Databases == {[nodes |-> StoredNodes, connections |-> StoredConnections]}

Init ==
    /\ ClientInit
    /\ \E db \in Databases : dbNodes = db.nodes /\ dbConnections = db.connections
    /\ PathIdle /\ CleanIdle

ConnectionIds == {connections[i].id : i \in 1..Len(connections)}

Next ==
    \/ \E d \in Discussions : LoadDiscussion(d) /\ UNCHANGED <<pathVars, cleanVars, eventVars>>
    \/ \E c \in calls : ServerExecute(c) /\ UNCHANGED <<pathVars, cleanVars, eventVars>>
    \/ \E c \in calls : ServerError(c) /\ UNCHANGED <<pathVars, cleanVars, eventVars>>
    \/ \E c \in calls : LoadDiscussionDone(c) /\ UNCHANGED <<pathVars, cleanVars, eventVars>>
    \/ \E c \in calls : AddNodeDone(c) /\ UNCHANGED <<pathVars, cleanVars, eventVars>>
    \/ \E c \in calls : DeleteNodeDone(c) /\ UNCHANGED <<pathVars, cleanVars, eventVars>>
    \/ \E c \in calls : AddConnectionDone(c) /\ UNCHANGED <<pathVars, cleanVars, eventVars>>
    \/ \E c \in calls : DeleteConnectionDone(c) /\ UNCHANGED <<pathVars, cleanVars, eventVars>>
    \/ \E id \in ConnectionIds : DeleteConnection(id) /\ UNCHANGED <<pathVars, cleanVars, eventVars>>
    \/ handleCanvasClick /\ UNCHANGED <<pathVars, cleanVars, eventVars>>
    \/ \E p \in Pointers :
           handleCanvasDoubleClick(p) /\ UNCHANGED <<pathVars, cleanVars, eventVars>>
    \/ handleAddNode /\ UNCHANGED <<pathVars, cleanVars, eventVars>>
    \/ \E n \in NodeIds, shiftKey \in BOOLEAN :
           handleNodeClick(n, shiftKey) /\ UNCHANGED <<pathVars, cleanVars, eventVars>>
    \/ \E n \in NodeIds : handleNodeDoubleClick(n) /\ UNCHANGED <<pathVars, cleanVars, eventVars>>
    \/ \E p \in Pointers : handleMouseMove(p) /\ UNCHANGED <<pathVars, cleanVars, eventVars>>
    \/ handleDeleteSelected /\ UNCHANGED <<pathVars, cleanVars, eventVars>>
    \/ handleEditSelected /\ UNCHANGED <<pathVars, cleanVars, eventVars>>
    \/ EditorClose /\ UNCHANGED <<pathVars, cleanVars, eventVars>>
    \/ \E inTextarea \in BOOLEAN :
           EscapeKey(inTextarea) /\ UNCHANGED <<pathVars, cleanVars, wheelEvents>>

Spec == Init /\ [][Next]_vars

(***************************************************************************)
(* Specification SpecView: the view operations, together with the loads    *)
(* that mount the canvas and reset the view (one load at a time)           *)
(***************************************************************************)
\* e.evt.deltaY of the wheel events
WheelDeltas == {-100, 0, 100}

\* where a pan leaves the stage
StagePositions == {[x |-> -40, y |-> 20]}

NextView ==
    \/ \E d \in Discussions :
           calls = {} /\ LoadDiscussion(d) /\ UNCHANGED <<pathVars, cleanVars, eventVars>>
    \/ \E c \in calls : ServerExecute(c) /\ UNCHANGED <<pathVars, cleanVars, eventVars>>
    \/ \E c \in calls : ServerError(c) /\ UNCHANGED <<pathVars, cleanVars, eventVars>>
    \/ \E c \in calls : LoadDiscussionDone(c) /\ UNCHANGED <<pathVars, cleanVars, eventVars>>
    \/ \E p \in Pointers, deltaY \in WheelDeltas :
           handleWheel(p, deltaY) /\ UNCHANGED <<pathVars, cleanVars, keyEvents>>
    \/ handleZoomIn /\ UNCHANGED <<pathVars, cleanVars, keyEvents>>
    \/ handleZoomOut /\ UNCHANGED <<pathVars, cleanVars, keyEvents>>
    \/ handleReset /\ UNCHANGED <<pathVars, cleanVars, keyEvents>>
    \/ \E position \in StagePositions : StageDragEnd(position) /\ UNCHANGED <<pathVars, cleanVars, keyEvents>>

SpecView == Init /\ [][NextView]_vars

(***************************************************************************)
(* Specification SpecCanvas: the gestures of the canvas (connect, drag a   *)
(* node, pan, wheel, resize, create by double click) on a loaded           *)
(* discussion                                                              *)
(***************************************************************************)
\* positions of a node's group when the pointer is released
DragPositions == {[x |-> Frac(61, 2), y |-> Whole(40)]}

\* positions of the resize handle when the pointer is released
HandlePositions == {[x |-> 100, y |-> 120]}

\* the nodes whose groups the pointer addresses: two stored nodes and the
\* node created by the second request
CanvasNodes == {2, 11, 12}

NextCanvas ==
    \/ \E d \in Discussions :
           calls = {} /\ LoadDiscussion(d) /\ UNCHANGED <<pathVars, cleanVars, eventVars>>
    \/ \E c \in calls : ServerExecute(c) /\ UNCHANGED <<pathVars, cleanVars, eventVars>>
    \/ \E c \in calls : ServerError(c) /\ UNCHANGED <<pathVars, cleanVars, eventVars>>
    \/ \E c \in calls : LoadDiscussionDone(c) /\ UNCHANGED <<pathVars, cleanVars, eventVars>>
    \/ \E c \in calls : AddNodeDone(c) /\ UNCHANGED <<pathVars, cleanVars, eventVars>>
    \/ \E c \in calls : AddConnectionDone(c) /\ UNCHANGED <<pathVars, cleanVars, eventVars>>
    \/ \E c \in calls : UpdateNodeDone(c) /\ UNCHANGED <<pathVars, cleanVars, eventVars>>
    \/ handleCanvasClick /\ UNCHANGED <<pathVars, cleanVars, eventVars>>
    \/ \E p \in Pointers :
           handleCanvasDoubleClick(p) /\ UNCHANGED <<pathVars, cleanVars, eventVars>>
    \/ \E n \in CanvasNodes, shiftKey \in BOOLEAN :
           handleNodeClick(n, shiftKey) /\ UNCHANGED <<pathVars, cleanVars, eventVars>>
    \/ \E n \in CanvasNodes :
           handleNodeDragStart(n) /\ UNCHANGED <<pathVars, cleanVars, eventVars>>
    \/ \E n \in CanvasNodes, position \in DragPositions :
           handleNodeDragEnd(n, position) /\ UNCHANGED <<pathVars, cleanVars, eventVars>>
    \/ \E n \in CanvasNodes :
           handleResizeDragStart(n) /\ UNCHANGED <<pathVars, cleanVars, eventVars>>
    \/ \E n \in CanvasNodes, handle \in HandlePositions :
           handleResizeDragEnd(n, handle) /\ UNCHANGED <<pathVars, cleanVars, eventVars>>
    \/ \E n \in CanvasNodes :
           handleToggleCollapse(n) /\ UNCHANGED <<pathVars, cleanVars, eventVars>>
    \/ EditorClose /\ UNCHANGED <<pathVars, cleanVars, eventVars>>
    \/ StageDragStart /\ UNCHANGED <<pathVars, cleanVars, keyEvents>>
    \/ \E position \in StagePositions :
           StagePanEnd(position) /\ UNCHANGED <<pathVars, cleanVars, keyEvents>>
    \/ \E p \in Pointers, deltaY \in WheelDeltas :
           handleWheel(p, deltaY) /\ UNCHANGED <<pathVars, cleanVars, keyEvents>>

SpecCanvas == Init /\ [][NextCanvas]_vars

\* every request is answered: the promise of the remote call settles
Answer ==
    /\ \E c \in calls : ServerExecute(c) \/ ServerError(c)
    /\ UNCHANGED <<pathVars, cleanVars, eventVars>>

\* the continuation after an await runs once its promise has settled
Complete ==
    /\ \E c \in calls : \/ LoadDiscussionDone(c)
                        \/ AddNodeDone(c)
                        \/ AddConnectionDone(c)
                        \/ UpdateNodeDone(c)
    /\ UNCHANGED <<pathVars, cleanVars, eventVars>>

\* the canvas with settled promises and their continuations scheduled
SpecCanvasFair == SpecCanvas /\ WF_vars(Answer) /\ WF_vars(Complete)

(***************************************************************************)
(* Claims about the pathfinder                                             *)
(***************************************************************************)
CandidateRects == AllNodeRects(allNodes)

CandidateFree(k) ==
    ~doesPathIntersectObstacles(AllCandidates(startNode, endNode)[k], CandidateRects)

AnyCandidateFree == \E k \in 1..32 : CandidateFree(k)

ThirdPartyNodes == {n \in allNodes : n.id # startNode.id /\ n.id # endNode.id}

\* the axis-aligned segment p-q meets the rectangle of node n inflated by
\* PADDING on every side
SegmentMeetsInflated(p, q, n) ==
    /\ n.x - PADDING < Max(p.x, q.x)
    /\ n.x + n.width + PADDING > Min(p.x, q.x)
    /\ n.y - PADDING < Max(p.y, q.y)
    /\ n.y + EffectiveHeight(n) + PADDING > Min(p.y, q.y)

\* p lies on the boundary of the effective rectangle of node n
OnBoundary(p, n) ==
    /\ n.x <= p.x /\ p.x <= n.x + n.width
    /\ n.y <= p.y /\ p.y <= n.y + EffectiveHeight(n)
    /\ \/ p.x = n.x \/ p.x = n.x + n.width
       \/ p.y = n.y \/ p.y = n.y + EffectiveHeight(n)

\* C1: when at least one of the 32 candidates is collision-free, no
\* interior segment (all but the first and the last) of the returned path
\* meets the padding-inflated rectangle of a node other than source and
\* target.
C1_ObstacleAvoidance ==
    (pathPc = "done" /\ AnyCandidateFree) =>
        \A i \in 2..(Len(pathResult) - 2) : \A n \in ThirdPartyNodes :
            ~SegmentMeetsInflated(pathResult[i], pathResult[i + 1], n)

\* a third-party node rules out at least one candidate, another candidate
\* survives and the returned path has interior segments
C1_Witness ==
    /\ pathPc = "done"
    /\ AnyCandidateFree
    /\ Len(pathResult) >= 4
    /\ \E k \in 1..32 :
           doesPathIntersectObstacles(AllCandidates(startNode, endNode)[k],
                                      AllNodeRects(ThirdPartyNodes))

\* C2 (as stated): the first point of the returned path lies on the
\* boundary of the source's effective rectangle and the last point on the
\* boundary of the target's, for every obstacle set.
C2_EndpointsOnBoundary_Original ==
    pathPc = "done" =>
        /\ OnBoundary(pathResult[1], startNode)
        /\ OnBoundary(pathResult[Len(pathResult)], endNode)

\* C2 (amended): when at least one candidate is collision-free the first
\* point lies on the source's boundary and the last on the target's; when
\* all 32 candidates collide the path starts at the source's centre and
\* ends at the target's centre.
C2_EndpointsAmended ==
    pathPc = "done" =>
        /\ AnyCandidateFree =>
               /\ OnBoundary(pathResult[1], startNode)
               /\ OnBoundary(pathResult[Len(pathResult)], endNode)
        /\ ~AnyCandidateFree =>
               /\ pathResult[1] = NodeCenter(startNode)
               /\ pathResult[Len(pathResult)] = NodeCenter(endNode)

\* a collapsed source is left through its bottom port
C2_Witness ==
    /\ pathPc = "done"
    /\ AnyCandidateFree
    /\ startNode.isCollapsed
    /\ pathResult[1] = NodePorts(startNode)[2]
    /\ OnBoundary(pathResult[Len(pathResult)], endNode)

\* C3: every segment of the returned path is axis-aligned.
C3_Orthogonal ==
    pathPc = "done" =>
        \A i \in 1..(Len(pathResult) - 1) :
            \/ pathResult[i].x = pathResult[i + 1].x
            \/ pathResult[i].y = pathResult[i + 1].y

\* the fallback is returned with its corner: a path of two segments, one
\* vertical and one horizontal
C3_Witness ==
    /\ pathPc = "done"
    /\ ~AnyCandidateFree
    /\ Len(pathResult) = 3
    /\ pathResult[1].x # pathResult[3].x
    /\ pathResult[1].y # pathResult[3].y

\* C4: the pathfinder always returns at least 2 points; when all 32
\* candidates collide it returns the simplified fallback source centre,
\* corner (source centre x, target centre y), target centre, also when
\* the two centres coincide.
C4_FallbackGuarantee ==
    pathPc = "done" =>
        /\ Len(pathResult) >= 2
        /\ ~AnyCandidateFree =>
               /\ pathResult[1] = NodeCenter(startNode)
               /\ pathResult[Len(pathResult)] = NodeCenter(endNode)
               /\ \A i \in 1..Len(pathResult) :
                      /\ pathResult[i].x \in {NodeCenter(startNode).x, NodeCenter(endNode).x}
                      /\ pathResult[i].y \in {NodeCenter(startNode).y, NodeCenter(endNode).y}
               /\ Len(pathResult) = 3 =>
                      pathResult[2] = Point(NodeCenter(startNode).x, NodeCenter(endNode).y)

\* all candidates collide and the two centres coincide
C4_Witness ==
    /\ pathPc = "done"
    /\ ~AnyCandidateFree
    /\ NodeCenter(startNode) = NodeCenter(endNode)
    /\ Len(pathResult) = 2

\* C5: cleanupPath(cleanupPath(p)) = cleanupPath(p) for every point list p.
C5_CleanupIdempotent ==
    cleanPc = "twice" => cleanedTwice = cleanedOnce

\* ---- C6 ----
\* the step in which a successful deleteNode(c.a) completes
DeleteNodeCompletes(c) ==
    /\ c \in calls /\ c.op = "deleteNode" /\ c.phase = "ok"
    /\ calls' = calls \ {c}

ConnectionSet(conns) == {conns[i] : i \in 1..Len(conns)}

\* how many times k occurs in conns
Occurrences(conns, k) == Cardinality({i \in 1..Len(conns) : conns[i] = k})

\* C6: when deleteNode(id) completes successfully, no connection left in
\* graphState.connections has id as its fromNodeId or toNodeId, and every
\* connection that referenced neither is still there, unchanged, as often as
\* it was before (nothing else is added).
C6_CascadeDeletion ==
    [][\A c \in calls :
          DeleteNodeCompletes(c) =>
              /\ \A k \in ConnectionSet(connections') :
                     k.fromNodeId # c.a /\ k.toNodeId # c.a
              /\ \A k \in ConnectionSet(connections) :
                     (k.fromNodeId # c.a /\ k.toNodeId # c.a)
                         => Occurrences(connections', k) = Occurrences(connections, k)
              /\ ConnectionSet(connections') \subseteq ConnectionSet(connections)]_vars

\* deleteNode(11) has completed on the loaded discussion d1: the connection
\* 11 -> 12 is gone, the connection 12 -> 13 is still there
C6_Witness ==
    /\ issued = 2 /\ calls = {}
    /\ currentDiscussion = "d1"
    /\ 11 \notin DbNodeIds /\ 11 \notin NodeIds /\ Len(nodes) = 2
    /\ connections = <<ConnectionRow(12, 12, 13, "d1")>>

\* ---- C7 ----
\* C7: selectedNodeId and isEditingNode are each unset or the id of a node
\* currently in graphState.nodes.
C7_SelectionReferencesNodes ==
    /\ selectedNodeId = Undefined \/ selectedNodeId \in NodeIds
    /\ isEditingNode = Undefined \/ isEditingNode \in NodeIds

\* ---- C8 ----
\* C8: graphState.scale stays within [minScale, maxScale] = [0.1, 3] (1 to
\* 30 tenths) whatever wheel events, toolbar zooms, resets, pans and loads
\* have happened.
C8_ScaleWithinBounds ==
    CANVAS_MIN_SCALE <= scale /\ scale <= CANVAS_MAX_SCALE

\* the scale sits at the lower bound after wheel zooming has moved the view
C8_Witness ==
    /\ scale = CANVAS_MIN_SCALE
    /\ wheelEvents >= 1
    /\ offset # InitialOffset

\* ---- C9 ----
AtBoundInDirection(s, direction) ==
    \/ s = CANVAS_MAX_SCALE /\ direction = 1
    \/ s = CANVAS_MIN_SCALE /\ direction = -1

\* C9: every wheel event with pointer p leaves the graph-space point under
\* the pointer where it was, (p - o') / s' = (p - o) / s on both axes, and
\* leaves scale and offset unchanged when the scale is already at the bound
\* in the wheel's direction.
C9_WheelKeepsPointerFixed ==
    [][\A p \in Pointers, deltaY \in WheelDeltas :
          handleWheel(p, deltaY) =>
              /\ GraphPoint(p, offset', scale') = GraphPoint(p, offset, scale)
              /\ AtBoundInDirection(scale, WheelDirection(deltaY))
                     => (scale' = scale /\ offset' = offset)]_vars

\* a wheel event has zoomed about the pointer: the scale has left 1 and the
\* offset it produced is not a whole number of pixels
C9_Witness ==
    /\ wheelEvents >= 1
    /\ scale # INITIAL_SCALE
    /\ offset.x.d # 1

\* ---- C10 ----
\* C10: every connection in graphState.connections has a fromNodeId and a
\* toNodeId that are ids of nodes currently in graphState.nodes.
C10_ConnectionsReferenceNodes ==
    \A k \in ConnectionSet(connections) :
        k.fromNodeId \in NodeIds /\ k.toNodeId \in NodeIds

\* ---- C11 ----
CandidateLength(k) == getPathLength(AllCandidates(startNode, endNode)[k])

\* candidate k is collision-free, no collision-free candidate is shorter and
\* none before it in enumeration order is as short
FirstShortestFree(k) ==
    /\ CandidateFree(k)
    /\ \A j \in 1..32 : CandidateFree(j) => CandidateLength(k) <= CandidateLength(j)
    /\ \A j \in 1..(k - 1) : CandidateFree(j) => CandidateLength(j) > CandidateLength(k)

\* C11: when some candidate is collision-free, the returned path is
\* cleanupPath of the collision-free candidate of minimum Manhattan length,
\* the first in enumeration order among those of equal minimum length; the
\* result is a function of the node geometry alone.
C11_ShortestFirstFound ==
    (pathPc = "done" /\ AnyCandidateFree) =>
        \E k \in 1..32 :
            /\ FirstShortestFree(k)
            /\ pathResult = cleanupPath(AllCandidates(startNode, endNode)[k])

\* two collision-free candidates tie for the minimum length and clean up to
\* different paths; the earlier one was returned
C11_Witness ==
    /\ pathPc = "done"
    /\ \E k \in 1..32 :
           /\ FirstShortestFree(k)
           /\ pathResult = cleanupPath(AllCandidates(startNode, endNode)[k])
           /\ \E j \in (k + 1)..32 :
                  /\ CandidateFree(j)
                  /\ CandidateLength(j) = CandidateLength(k)
                  /\ cleanupPath(AllCandidates(startNode, endNode)[j]) # pathResult

\* ---- C12 ----
\* the step in which handleNodeClick's connecting branch, started by a click
\* on c.b with connectionStart = c.a, comes to its end (by returning or by
\* the rejection of its await)
ConnectingClickEnds(c) ==
    /\ c \in calls /\ c.op = "addConnection" /\ c.origin = "nodeClick"
    /\ c.phase # "sent"
    /\ calls' = calls \ {c}

ControllerIdle == ~isConnecting /\ connectionStart = Undefined /\ tempConnection = NoPoint

\* C12: a click on node b in Connecting with connectionStart = a, b # a, has
\* created exactly one connection a -> b of type 'supports' when its handler
\* ends, and leaves the controller Idle: isConnecting = false,
\* connectionStart = null, tempConnection = null.
C12_ConnectingClickCreates ==
    [][\A c \in calls :
          ConnectingClickEnds(c) =>
              /\ \E k \in ConnectionSet(connections') :
                     /\ k.fromNodeId = c.a /\ k.toNodeId = c.b
                     /\ k.relationshipType = "supports"
                     /\ Occurrences(connections', k) = Occurrences(connections, k) + 1
              /\ Len(connections') = Len(connections) + 1
              /\ ControllerIdle']_vars

\* ---- C13 ----
\* C13: in Idle a shift-click on node n leads to Connecting with
\* connectionStart = n and selectedNodeId = n and creates no connection (and
\* issues no request); a click without shift only sets selectedNodeId = n
\* and the controller stays Idle.
C13_IdleNodeClick ==
    [][\A n \in NodeIds, shiftKey \in BOOLEAN :
          (ControllerIdle /\ handleNodeClick(n, shiftKey)) =>
              /\ selectedNodeId' = n
              /\ UNCHANGED <<currentDiscussion, nodes, connections, isEditingNode,
                             viewVars, dbVars, calls, issued>>
              /\ IF shiftKey
                 THEN isConnecting' /\ connectionStart' = n
                 ELSE ControllerIdle']_vars

\* Connecting was entered by a shift-click: the source is the selected node,
\* nothing was requested and the connections are those loaded
C13_Witness ==
    /\ isConnecting /\ connectionStart # Undefined
    /\ selectedNodeId = connectionStart
    /\ calls = {} /\ issued = 1
    /\ ConnectionSet(connections) = StoredConnections

\* ---- C14 ----
\* C14: a click on the empty canvas, in Idle or in Connecting, ends in Idle
\* (isConnecting = false, connectionStart = null, tempConnection = null)
\* with selectedNodeId and isEditingNode unset; it changes neither nodes nor
\* connections and issues no persistence call.
C14_CanvasClick ==
    [][handleCanvasClick =>
          /\ ControllerIdle'
          /\ selectedNodeId' = Undefined
          /\ isEditingNode' = Undefined
          /\ UNCHANGED <<nodes, connections, dbVars, calls, issued>>]_vars

\* the canvas was clicked while a connecting click still awaited its
\* response: the request is pending and the controller is Idle again
C14_Witness ==
    /\ ControllerIdle
    /\ selectedNodeId = Undefined /\ isEditingNode = Undefined
    /\ issued = 2
    /\ \E c \in calls :
           /\ calls = {c}
           /\ c.op = "addConnection" /\ c.origin = "nodeClick" /\ c.live

\* ---- C15 ----
\* C15: pressing Escape in Connecting aborts the gesture (back to Idle:
\* isConnecting = false, connectionStart = null) without creating a
\* connection; pressing Escape while the node edit panel is open unsets
\* isEditingNode without calling updateNode.
C15_EscapeAborts ==
    [][keyEvents' = keyEvents + 1 =>
          /\ isConnecting =>
                 /\ ~isConnecting' /\ connectionStart' = Undefined
                 /\ UNCHANGED <<connections, calls>>
          /\ EditorOpen =>
                 /\ isEditingNode' = Undefined
                 /\ UNCHANGED <<nodes, calls>>]_vars

\* ---- C16 ----
\* the request issued by this step
IssuedCall == CHOOSE c \in calls' : c \notin calls /\ c.tag = issued'

\* the response of a drag's updateNode is handled by this step
DragUpdateEnds(c) ==
    /\ c \in calls /\ c.op = "updateNode" /\ c.origin = "nodeDragEnd"
    /\ c.phase # "sent"
    /\ calls' = calls \ {c}

OtherNodesKept(id) ==
    /\ Len(nodes') = Len(nodes)
    /\ \A i \in DOMAIN nodes : nodes[i].id # id => nodes'[i] = nodes[i]

\* C16: a drag of node n issues exactly one updateNode call, at drag-end,
\* carrying only x and y; once that update has been handled the stored
\* position of n is the final (rounded) drag position, and neither the
\* drag-end nor the update changes another node, the connections,
\* selectedNodeId, isEditingNode, scale or offset.
C16_DragCommitsPosition ==
    [][/\ \A n \in CanvasNodes :
              handleNodeDragStart(n) => calls' = calls
       /\ \A n \in CanvasNodes, position \in DragPositions :
              handleNodeDragEnd(n, position) =>
                  /\ Cardinality(calls' \ calls) = 1
                  /\ IssuedCall.op = "updateNode" /\ IssuedCall.a = n
                  /\ IssuedCall.patch.keys = {"x", "y"}
                  /\ IssuedCall.patch.x = Whole(Round(position.x))
                  /\ IssuedCall.patch.y = Whole(Round(position.y))
                  /\ UNCHANGED <<graphVars, viewVars>>
       /\ \A c \in calls :
              DragUpdateEnds(c) =>
                  /\ \E i \in DOMAIN nodes' :
                         /\ nodes'[i].id = c.a
                         /\ nodes'[i].x = c.patch.x /\ nodes'[i].y = c.patch.y
                  /\ OtherNodesKept(c.a)
                  /\ UNCHANGED <<connections, selectedNodeId, isEditingNode, viewVars>>]_vars

\* ---- C17 ----
\* C17: from a node's drag-start to its drag-end, the drag-end event
\* reaching the Stage included, the Stage's drag handling never changes
\* graphState.offset: no pan of the stage starts while a node is dragged and
\* a node's drag-end leaves the offset as it was.
C17_NodeDragKeepsOffset ==
    [][/\ StageDragStart => dragElement.kind # "node" /\ draggedNodeId = Undefined
       /\ \A n \in CanvasNodes, position \in DragPositions :
              handleNodeDragEnd(n, position) => offset' = offset]_vars

\* ---- C18 ----
GesturesActive ==
    {g \in {"connect", "nodeDrag", "pan", "resize"} :
        \/ g = "connect" /\ isConnecting
        \/ g = "nodeDrag" /\ draggedNodeId # Undefined
        \/ g = "pan" /\ dragElement = StageDrag
        \/ g = "resize" /\ isResizing # Undefined}

\* C18: at most one gesture is active at a time: no two of isConnecting,
\* draggedNodeId set, a stage pan in progress and isResizing hold together.
C18_OneGestureAtATime == Cardinality(GesturesActive) <= 1

\* ---- C19 ----
\* the change a mutation request asks for is visible in graphState
LocallyApplied(c, ns, ks) ==
    CASE c.op = "addNode" ->
             \E i \in DOMAIN ns :
                 /\ ns[i].x = c.patch.x /\ ns[i].y = c.patch.y
                 /\ ns[i].id \notin NodeIds
      [] c.op = "updateNode" ->
             \A i \in DOMAIN ns :
                 ns[i].id = c.a => ns[i] = ApplyPatch(ns[i], c.patch)
      [] c.op = "deleteNode" ->
             /\ \A i \in DOMAIN ns : ns[i].id # c.a
             /\ \A i \in DOMAIN ks : ks[i].fromNodeId # c.a /\ ks[i].toNodeId # c.a
      [] c.op = "addConnection" ->
             \E i \in DOMAIN ks : ks[i].fromNodeId = c.a /\ ks[i].toNodeId = c.b
      [] c.op = "deleteConnection" ->
             \A i \in DOMAIN ks : ks[i].id # c.a
      [] OTHER -> TRUE

\* C19: every mutation (addNode, updateNode, deleteNode, addConnection,
\* deleteConnection) applies its change to the in-memory graphState
\* immediately, in the step that issues the remote call, and the handling
\* of a failed remote call leaves that local change in place.
C19_OptimisticMutations ==
    [][/\ \A c \in calls' \ calls : LocallyApplied(c, nodes', connections')
       /\ \A c \in calls \ calls' :
              c.phase = "err" => LocallyApplied(c, nodes', connections')]_vars

\* ---- C20 ----
\* the response of a double click's addNode is handled by this step
CreateEnds(c) ==
    /\ c \in calls /\ c.op = "addNode" /\ c.origin = "canvasDoubleClick"
    /\ c.phase # "sent"
    /\ calls' = calls \ {c}

\* the rectangle of the patch has its centre at the graph-space point that
\* the view (s, o) shows at p: centre * s + o = p on both axes, s in tenths
CentredAt(patch, p, o, s) ==
    LET cx == Frac(patch.x.n + (patch.width \div 2) * patch.x.d, patch.x.d)
        cy == Frac(patch.y.n + (patch.height \div 2) * patch.y.d, patch.y.d)
    IN  /\ patch.width % 2 = 0 /\ patch.height % 2 = 0
        /\ cx.n * s * o.x.d + o.x.n * 10 * cx.d = p.x * 10 * cx.d * o.x.d
        /\ cy.n * s * o.y.d + o.y.n * 10 * cy.d = p.y * 10 * cy.d * o.y.d

\* C20: a double click on the empty canvas at p under the view (s, o) asks
\* for one node of DEFAULT_NODE_SIZE (200 x 100) centred at (p - o) / s; when
\* the create succeeds exactly that one node is added to graphState.nodes
\* and selectedNodeId and isEditingNode become its id, which is then in
\* nodes; when the create fails, nodes, selectedNodeId and isEditingNode
\* are unchanged.
C20_DoubleClickCreates ==
    [][/\ \A p \in Pointers :
              handleCanvasDoubleClick(p) =>
                  /\ Cardinality(calls' \ calls) = 1
                  /\ IssuedCall.op = "addNode"
                  /\ IssuedCall.patch.width = DEFAULT_NODE_WIDTH
                  /\ IssuedCall.patch.height = DEFAULT_NODE_HEIGHT
                  /\ CentredAt(IssuedCall.patch, p, offset, scale)
                  /\ UNCHANGED graphVars
       /\ \A c \in calls :
              CreateEnds(c) =>
                  IF c.phase = "ok"
                  THEN /\ Len(nodes') = Len(nodes) + 1
                       /\ SubSeq(nodes', 1, Len(nodes)) = nodes
                       /\ LET new == nodes'[Len(nodes')]
                          IN  /\ new.id = c.tag
                              /\ new.x = c.patch.x /\ new.y = c.patch.y
                              /\ new.width = c.patch.width
                              /\ new.height = c.patch.height
                              /\ selectedNodeId' = new.id
                              /\ isEditingNode' = new.id
                              /\ \E i \in DOMAIN nodes' : nodes'[i].id = selectedNodeId'
                  ELSE UNCHANGED <<nodes, selectedNodeId, isEditingNode>>]_vars

\* a node created by a double click under a zoomed and panned view is
\* selected and open in the editor; its corner is not on a whole pixel
C20_Witness ==
    /\ selectedNodeId # Undefined /\ isEditingNode = selectedNodeId
    /\ \E i \in DOMAIN nodes :
           /\ nodes[i].id = selectedNodeId
           /\ nodes[i].id \notin {n.id : n \in StoredNodes}
           /\ nodes[i].width = DEFAULT_NODE_WIDTH /\ nodes[i].height = DEFAULT_NODE_HEIGHT
           /\ nodes[i].x.d # 1

\* ---- C21 ----
\* an interior segment (the second or the third of the five-point route) of
\* candidate k meets the inflated rectangle of a node in ns
CandidateBlockedBy(k, ns) ==
    LET path == AllCandidates(startNode, endNode)[k]
    IN  \E i \in 2..3 : \E n \in ns : SegmentMeetsInflated(path[i], path[i + 1], n)

\* C21: a candidate route is discarded only because an interior segment
\* meets the inflated rectangle of a node other than the source and the
\* target; the source's and the target's own rectangles never cause a
\* candidate to be rejected.
C21_OnlyThirdPartiesReject ==
    pathPc = "done" =>
        \A k \in 1..32 : ~CandidateFree(k) => CandidateBlockedBy(k, ThirdPartyNodes)

\* ---- C22 ----
TwoNodeCase ==
    /\ startNode = GNode("A", 0, 0, 200, 100, FALSE)
    /\ endNode = GNode("B", 500, 0, 200, 100, FALSE)
    /\ allNodes = {startNode, endNode}

\* C22: with exactly the two nodes A at (0, 0) and B at (500, 0), both
\* 200 x 100, findOrthogonalPath(A, B, [A, B]) returns a horizontal route
\* from (200, 50) on A's right edge to (500, 50) on B's left edge.
C22_TwoNodeRoute ==
    (pathPc = "done" /\ TwoNodeCase) =>
        /\ Len(pathResult) >= 2
        /\ pathResult[1] = Point(200, 50)
        /\ pathResult[Len(pathResult)] = Point(500, 50)
        /\ \A i \in 1..Len(pathResult) : pathResult[i].y = 50
        /\ \A i \in 1..(Len(pathResult) - 1) : pathResult[i].x < pathResult[i + 1].x

\* the route of the two-node case has been computed: the straight segment
C22_Witness ==
    /\ pathPc = "done"
    /\ TwoNodeCase
    /\ pathResult = <<Point(200, 50), Point(500, 50)>>

\* ---- C23 ----
\* the response of an updateNode is handled by this step
UpdateEnds(c) ==
    /\ c \in calls /\ c.op = "updateNode" /\ c.phase # "sent"
    /\ calls' = calls \ {c}

\* C23: updateNode(id, partial) changes only the fields named in partial
\* of the node with that id and leaves every other node, the connections,
\* selectedNodeId, isEditingNode, scale and offset unchanged; when no node
\* has that id the whole graphState is unchanged and the call completes
\* without an error.
C23_UpdateNodeFrame ==
    [][\A c \in calls :
          UpdateEnds(c) =>
              /\ Len(nodes') = Len(nodes)
              /\ \A i \in DOMAIN nodes :
                     IF nodes[i].id = c.a
                     THEN nodes'[i] \in {nodes[i], ApplyPatch(nodes[i], c.patch)}
                     ELSE nodes'[i] = nodes[i]
              /\ UNCHANGED <<connections, selectedNodeId, isEditingNode, viewVars>>
              /\ c.a \notin NodeIds => (nodes' = nodes /\ c.phase = "ok")]_vars

\* ---- C24 ----
\* the collapse toggles of node id that still await their response
PendingToggles(id) ==
    {c \in calls : c.op = "updateNode" /\ c.origin = "collapse" /\ c.a = id}

\* the flag node id has once the toggles issued so far have been applied
FlagAfterToggles(id) ==
    IF PendingToggles(id) = {}
    THEN NodeOf(id).isCollapsed
    ELSE (CHOOSE c \in PendingToggles(id) :
              \A q \in PendingToggles(id) : q.tag <= c.tag).patch.isCollapsed

\* C24: toggling collapse on a node changes only its isCollapsed flag, the
\* stored width and height are unchanged, and each toggle asks for the
\* negation of the flag left by the toggle before it, so that toggling
\* twice restores the original flag.  (The pathfinder's use of
\* COLLAPSED_HEIGHT for a collapsed node is EffectiveHeight, NodeRect,
\* NodePorts and NodeCenter.)
C24_ToggleCollapse ==
    [][/\ \A n \in CanvasNodes :
              handleToggleCollapse(n) =>
                  /\ IssuedCall.patch.keys = {"isCollapsed"}
                  /\ IssuedCall.patch.isCollapsed = ~FlagAfterToggles(n)
       /\ \A c \in calls :
              (UpdateEnds(c) /\ c.origin = "collapse") =>
                  \A i \in DOMAIN nodes :
                      /\ nodes'[i].width = nodes[i].width
                      /\ nodes'[i].height = nodes[i].height
                      /\ nodes'[i].x = nodes[i].x /\ nodes'[i].y = nodes[i].y]_vars

\* ---- C25 ----
MinimumSize(row) == row.width >= MIN_WIDTH /\ row.height >= MIN_HEIGHT

\* every row of dbNodes keeps its x and y
PositionsKept ==
    \A r \in dbNodes : \E q \in dbNodes' : q.id = r.id /\ q.x = r.x /\ q.y = r.y

LoadPending == \E c \in calls : c.op = "loadDiscussion"

\* C26: graphState belongs to the open discussion: once the load of d has
\* been handled and no other load is under way, graphState.nodes and
\* graphState.connections hold no record whose discussionId differs from
\* d, also when an addNode or addConnection issued for the discussion that
\* was open before completes after the switch.
C26_GraphOfOpenDiscussion ==
    (currentDiscussion # NoDiscussion /\ ~LoadPending) =>
        /\ \A i \in DOMAIN nodes : nodes[i].discussionId = currentDiscussion
        /\ \A i \in DOMAIN connections :
               connections[i].discussionId = currentDiscussion

\* ---- C27 ----
\* C27: the connection gesture never creates a self-loop: every addConnection
\* asked for by the node-click handler, and every connection it appends,
\* has fromNodeId # toNodeId; in Connecting, a click on the source node
\* itself asks for no connection and leaves the controller in Connecting
\* with the same connectionStart.
C27_NoSelfLoop ==
    [][/\ \A c \in calls' \ calls :
              (c.op = "addConnection" /\ c.origin = "nodeClick") => c.a # c.b
       /\ \A c \in calls :
              (ConnectingClickEnds(c) /\ Len(connections') = Len(connections) + 1) =>
                  LET k == connections'[Len(connections')]
                  IN  k.fromNodeId # k.toNodeId
       /\ \A n \in NodeIds, shiftKey \in BOOLEAN :
              (isConnecting /\ connectionStart = n /\ handleNodeClick(n, shiftKey)) =>
                  /\ isConnecting' /\ connectionStart' = n
                  /\ UNCHANGED <<connections, calls, dbVars>>]_vars

\* the gesture has created a connection between two different nodes while
\* its source node is the selected one
C27_Witness ==
    /\ ControllerIdle
    /\ calls = {}
    /\ \E i \in DOMAIN connections :
           /\ connections[i] \notin StoredConnections
           /\ connections[i].fromNodeId # connections[i].toNodeId
           /\ connections[i].fromNodeId = selectedNodeId

\* ---- C28 ----
\* C28: in every reachable state isConnecting is true exactly when
\* connectionStart is set, and tempConnection is set only while isConnecting
\* is true, whatever the order of node clicks, canvas clicks, pointer moves
\* and completions of pending addConnection calls.
C28_ConnectingStateConsistent ==
    /\ isConnecting <=> connectionStart # Undefined
    /\ tempConnection # NoPoint => isConnecting

\* the preview line is drawn while an addConnection of the gesture is still
\* awaited
C28_Witness ==
    /\ isConnecting
    /\ tempConnection # NoPoint
    /\ \E c \in calls : c.op = "addConnection" /\ c.origin = "nodeClick" /\ c.phase = "ok"

\* ---- C29 ----
\* C29: one connection gesture creates at most one connection: between the
\* shift-click that enters Connecting and the next return to Idle,
\* addConnection is invoked at most once, even when further node clicks
\* arrive while the first call is still awaited.
C29_OneCallPerGesture == gestureCalls <= 1

\* ---- C30 ----
\* the position update of an ended node drag is awaited by the mounted
\* canvas while the node is still marked as dragged
DragEndAwaited ==
    /\ draggedNodeId # Undefined
    /\ \E c \in calls : c.op = "updateNode" /\ c.origin = "nodeDragEnd" /\ c.live

\* C30: every node drag eventually releases the pan lock: after a node
\* drag-end, draggedNodeId is eventually reset to null, whether the position
\* update succeeds or fails.
C30_DragReleasesPanLock == DragEndAwaited ~> (draggedNodeId = Undefined)

====
